---- MODULE Spec2Model ----
(***************************************************************************)
(* Playlist API: the ingestion normalizer (normalize_and_insert_data) and  *)
(* the HTTP handlers that share its catalog (upload, rate, delete-all).    *)
(*                                                                         *)
(* JSON values are tagged records, Python's str()/float()/int() are        *)
(* operators computed as CPython computes them on those values, and each   *)
(* HTTP handler is one action.  Floats are kept in tenths (8 is 0.8).      *)
(***************************************************************************)
EXTENDS Integers, Sequences, FiniteSets, TLC

VARIABLES
    db,      \* the committed songs table: a sequence of Song rows, in pk order
    prev,    \* the committed table as it was when the request began
    last,    \* the request being served and its response (NoRequest if none)
    rated,   \* history: per identifier, the last rating stored by rate_song
             \*          since the record was created (0 if none)
    uploads  \* the uploads that worker processes serve at the same time, each
             \* with its own session (used by SpecRace only)

vars == <<db, prev, last, rated, uploads>>

(***************************************************************************)
(* Bounds of the model.                                                    *)
(***************************************************************************)
MaxBatch == 2        \* longest payload (entries per upload)
MaxLit == 9          \* largest integer a numeric string literal may spell
MaxRows == 6         \* longest query result the pagination is checked on

(***************************************************************************)
(* JSON values, as json.loads returns them.                                *)
(***************************************************************************)
JNull == [t |-> "null"]
JStr(s) == [t |-> "str", s |-> s]
JInt(n) == [t |-> "int", n |-> n]
JFlt(n) == [t |-> "float", n |-> n]        \* n tenths
JBool(b) == [t |-> "bool", b |-> b]
JList(l) == [t |-> "list", l |-> l]
JDict(d) == [t |-> "dict", d |-> d]
Raise(e) == [t |-> "raise", e |-> e]       \* a raised exception, by class name

IsDict(v) == v.t = "dict"
IsList(v) == v.t = "list"
IsRaise(v) == v.t = "raise"

\* dict.get(key, default)
Get(d, k, dflt) == IF k \in DOMAIN d.d THEN d.d[k] ELSE dflt

EmptyDict == JDict(<<>>)

(***************************************************************************)
(* str(), float(), int() of CPython on JSON values.                        *)
(***************************************************************************)
DigitStr(d) ==
    CASE d = 0 -> "0" [] d = 1 -> "1" [] d = 2 -> "2" [] d = 3 -> "3"
      [] d = 4 -> "4" [] d = 5 -> "5" [] d = 6 -> "6" [] d = 7 -> "7"
      [] d = 8 -> "8" [] d = 9 -> "9"

RECURSIVE NatStr(_)
NatStr(n) == IF n < 10 THEN DigitStr(n) ELSE NatStr(n \div 10) \o DigitStr(n % 10)

IntStr(n) == IF n < 0 THEN "-" \o NatStr(-n) ELSE NatStr(n)

\* repr of a float held in tenths: 8 is "0.8", 10 is "1.0", -5 is "-0.5"
FltStr(n) ==
    LET a == IF n < 0 THEN -n ELSE n
    IN  (IF n < 0 THEN "-" ELSE "") \o NatStr(a \div 10) \o "." \o DigitStr(a % 10)

PyStr(v) ==
    CASE v.t = "str" -> v.s
      [] v.t = "null" -> "None"
      [] v.t = "int" -> IntStr(v.n)
      [] v.t = "float" -> FltStr(v.n)
      [] v.t = "bool" -> IF v.b THEN "True" ELSE "False"
      [] v.t = "list" -> "[...]"
      [] v.t = "dict" -> "{...}"

\* int() truncates a float toward zero
Trunc(n) == IF n < 0 THEN -((-n) \div 10) ELSE n \div 10

IntLits == (-MaxLit)..MaxLit
FltLits == (-10 * MaxLit)..(10 * MaxLit)

PyFloat(v) ==
    CASE v.t = "float" -> v
      [] v.t = "int" -> JFlt(10 * v.n)
      [] v.t = "bool" -> JFlt(IF v.b THEN 10 ELSE 0)
      [] v.t = "str" ->
            IF \E n \in IntLits : IntStr(n) = v.s
            THEN JFlt(10 * (CHOOSE n \in IntLits : IntStr(n) = v.s))
            ELSE IF \E n \in FltLits : FltStr(n) = v.s
            THEN JFlt(CHOOSE n \in FltLits : FltStr(n) = v.s)
            ELSE Raise("ValueError")
      [] OTHER -> Raise("TypeError")

PyInt(v) ==
    CASE v.t = "int" -> v
      [] v.t = "float" -> JInt(Trunc(v.n))
      [] v.t = "bool" -> JInt(IF v.b THEN 1 ELSE 0)
      [] v.t = "str" ->
            IF \E n \in IntLits : IntStr(n) = v.s
            THEN JInt(CHOOSE n \in IntLits : IntStr(n) = v.s)
            ELSE Raise("ValueError")
      [] OTHER -> Raise("TypeError")

(***************************************************************************)
(* The Song model: the string columns, rating, and the fifteen analytics   *)
(* columns with their declared types.                                      *)
(***************************************************************************)
FloatFields == {"danceability", "energy", "loudness", "acousticness",
                "instrumentalness", "liveness", "valence", "tempo"}
IntFields == {"key", "mode", "duration_ms", "time_signature", "num_bars",
              "num_sections", "num_segments"}
NumFields == FloatFields \cup IntFields

\* the order in which normalize_and_insert_data assigns the analytics columns
FieldOrder == <<"danceability", "energy", "key", "loudness", "mode",
                "acousticness", "instrumentalness", "liveness", "valence",
                "tempo", "duration_ms", "time_signature", "num_bars",
                "num_sections", "num_segments">>

SongFields == {"id", "title", "song_class", "rating"} \cup NumFields

\* float(...) or int(...), by the column's declared type
Coerce(f, v) == IF f \in FloatFields THEN PyFloat(v) ELSE PyInt(v)

(***************************************************************************)
(* The session handed to a request.  `rows` are the committed rows as the  *)
(* session loads them (an update mutates them in place), `pending` the     *)
(* rows given to db.add, which become rows of the table only at commit,    *)
(* `committed` the table as the database holds it: what remains when the   *)
(* session is closed; `commit_at` how many lookups had been made at each   *)
(* commit, `branch` the branch of normalize_and_insert_data that uses the   *)
(* session.                                                                *)
(***************************************************************************)
Ok(v) == [t |-> "ok", v |-> v]

Session(rows) ==
    [rows |-> rows, pending |-> <<>>, committed |-> rows, added |-> 0,
     queries |-> <<>>, processed |-> 0, commits |-> 0, commit_at |-> <<>>,
     branch |-> "none", err |-> "none"]

Fail(st, e) == [st EXCEPT !.err = e]

\* db.query(Song).filter(Song.id == s_id).first(): the position of the
\* committed row with that identifier, 0 for None
Find(rows, s_id) ==
    IF \E k \in 1..Len(rows) : rows[k].id = s_id
    THEN CHOOSE k \in 1..Len(rows) :
            rows[k].id = s_id /\ \A j \in 1..(k - 1) : rows[j].id # s_id
    ELSE 0

\* id = Column(String, unique=True): no two rows share an identifier
UniqueNever(rows) == TRUE

UniqueIds(rows) ==
    \A i, j \in 1..Len(rows) : rows[i].id = rows[j].id => i = j

\* db.rollback(): the session forgets what it has not committed
Rollback(st) == [st EXCEPT !.rows = st.committed, !.pending = <<>>]

\* db.commit(): flush the pending rows; the unique index rejects the flush
Commit(st) ==
    IF UniqueIds(st.rows \o st.pending)
    THEN [st EXCEPT !.rows = st.rows \o st.pending, !.pending = <<>>,
                    !.committed = st.rows \o st.pending, !.commits = @ + 1,
                    !.commit_at = Append(@, Len(st.queries))]
    ELSE Fail(st, "IntegrityError")

(***************************************************************************)
(* Building one Song from looked-up values.                                *)
(***************************************************************************)
FirstRaise(nums) ==
    LET bad == {i \in 1..Len(FieldOrder) : IsRaise(nums[FieldOrder[i]])}
    IN  IF bad = {} THEN Ok(nums)
        ELSE nums[FieldOrder[CHOOSE i \in bad : \A j \in bad : i <= j]]

MakeSong(s_id, title, song_class, rating, nums) ==
    [f \in SongFields |->
        CASE f = "id" -> s_id
          [] f = "title" -> title
          [] f = "song_class" -> song_class
          [] f = "rating" -> rating
          [] OTHER -> nums[f]]

\* rating=0 in both Song(...) constructions
CreateRatingFromPayload(given) == IF given.t = "int" THEN given.n ELSE 0

CreateRating(given) == 0

\* added_count += 1, in the else branch only
added_count_always(n, created) == n + 1

added_count(n, created) == IF created THEN n + 1 ELSE n

(***************************************************************************)
(* Column-oriented branch.                                                 *)
(***************************************************************************)
\* isinstance(data, dict) and all(isinstance(v, dict) for v in data.values())
is_column_oriented_by_id(data) ==
    IsDict(data) /\ "id" \in DOMAIN data.d /\ IsDict(data.d["id"])

is_column_oriented(data) ==
    IsDict(data) /\ \A k \in DOMAIN data.d : IsDict(data.d[k])

\* data.get(col, {}).get(idx, dflt)
ColLookup(data, col, idx, dflt) == Get(Get(data, col, EmptyDict), idx, dflt)

\* the literal defaults of the column-oriented Song(...) construction
ColDefaultZero(f) == IF f \in FloatFields THEN JFlt(0) ELSE JInt(0)

ColDefault(f) ==
    IF f \in FloatFields THEN JFlt(0)
    ELSE IF f = "time_signature" THEN JInt(4)
    ELSE JInt(0)

\* `if not s_id: continue`
ColSkip(s_id) == s_id = ""

ColUpdate(existing, data, idx) ==
    IF "title" \notin DOMAIN data.d THEN Raise("KeyError")
    ELSE
      LET nums == FirstRaise([f \in NumFields |->
                     Coerce(f, ColLookup(data, f, idx, existing[f]))])
      IN  IF IsRaise(nums) THEN nums
          ELSE Ok(MakeSong(existing.id,
                    JStr(PyStr(Get(data.d["title"], idx, existing.title))),
                    JStr(PyStr(ColLookup(data, "class", idx, existing.song_class))),
                    existing.rating, nums.v))

ColCreate(s_id, data, idx) ==
    IF "title" \notin DOMAIN data.d THEN Raise("KeyError")
    ELSE
      LET nums == FirstRaise([f \in NumFields |->
                     Coerce(f, ColLookup(data, f, idx, ColDefault(f)))])
      IN  IF IsRaise(nums) THEN nums
          ELSE Ok(MakeSong(s_id,
                    JStr(PyStr(Get(data.d["title"], idx, JStr("Unknown Title")))),
                    JStr(PyStr(ColLookup(data, "class", idx, JStr("0")))),
                    CreateRating(ColLookup(data, "rating", idx, JNull)), nums.v))

\* one lookup followed by the update of the row found or the add of a new one
UpsertCommitting(st, s_id, updated, created) ==
    LET k == Find(st.rows, s_id)
        q == [st EXCEPT !.queries = Append(@, s_id)]
        r == IF k # 0 THEN updated[k] ELSE created
    IN  IF IsRaise(r) THEN Fail(q, r.e)
        ELSE IF k # 0
        THEN Commit([q EXCEPT !.rows[k] = r.v])
        ELSE Commit([q EXCEPT !.pending = Append(@, r.v), !.added = @ + 1])

Upsert(st, s_id, updated, created) ==
    LET k == Find(st.rows, s_id)
        q == [st EXCEPT !.queries = Append(@, s_id)]
        r == IF k # 0 THEN updated[k] ELSE created
    IN  IF IsRaise(r) THEN Fail(q, r.e)
        ELSE IF k # 0
        THEN [q EXCEPT !.rows[k] = r.v, !.added = added_count(@, FALSE)]
        ELSE [q EXCEPT !.pending = Append(@, r.v), !.added = added_count(@, TRUE)]

ColStep(st, data, idx) ==
    LET s_id == PyStr(data.d["id"].d[idx])
    IN  IF ColSkip(s_id) THEN st
        ELSE Upsert(st, s_id,
                    [k \in 1..Len(st.rows) |-> ColUpdate(st.rows[k], data, idx)],
                    ColCreate(s_id, data, idx))

RECURSIVE ColLoop(_, _, _, _)
ColLoop(st, data, idxs, i) ==
    IF i > Len(idxs) \/ st.err # "none" THEN st
    ELSE ColLoop(ColStep(st, data, idxs[i]), data, idxs, i + 1)

\* the keys of a column in the order the payload lists them: the columns are
\* keyed "0", "1", ... in increasing order
IndexNames == [i \in 1..MaxBatch |-> IntStr(i - 1)]

KeysInOrder(col) == SelectSeq(IndexNames, LAMBDA k : k \in DOMAIN col.d)

\* len(song_indices)
ColProcessedLast(idxs) == IF idxs = <<>> THEN 0 ELSE Len(idxs) - 1

ColProcessed(idxs) == Len(idxs)

ColumnBranch(st, data) ==
    IF "id" \notin DOMAIN data.d THEN Fail(st, "KeyError")
    ELSE
      LET idxs == KeysInOrder(data.d["id"])
          done == ColLoop(st, data, idxs, 1)
      IN  IF done.err # "none" THEN done
          ELSE [Commit(done) EXCEPT !.processed = ColProcessed(idxs)]

(***************************************************************************)
(* Row-oriented branch.                                                    *)
(***************************************************************************)
\* the strings of the model that have "title" as a substring
TitleStrings == {"title", "subtitle"}

\* `"title" in item`: a key test on a dict, a substring test on a str, a
\* membership test on a list; any other operand is not a container
Contains(item) ==
    CASE item.t = "dict" -> "title" \in DOMAIN item.d
      [] item.t = "str" -> item.s \in TitleStrings
      [] item.t = "list" -> \E i \in 1..Len(item.l) : item.l[i] = JStr("title")
      [] OTHER -> FALSE

IsContainer(item) == item.t \in {"dict", "str", "list"}

\* `if "title" not in item: continue`
RowSkipTitleNever(item) == FALSE

RowSkipTitle(item) == ~Contains(item)

\* `if not s_id: continue`
RowSkipIdNever(s_id) == FALSE

RowSkipId(s_id) == s_id = ""

\* item.get("class", item.get("song_class", ""))
RowClassAliasFirst(item) == Get(item, "song_class", Get(item, "class", JStr("")))

RowClass(item) == Get(item, "class", Get(item, "song_class", JStr("")))

\* the literal defaults of the row-oriented Song(...) construction
RowDefault(f) ==
    IF f \in FloatFields THEN JFlt(0)
    ELSE IF f = "time_signature" THEN JInt(4)
    ELSE JInt(0)

\* item.get(f, existing.f) of the update
RowLookupDefaulting(item, f, existing) == Get(item, f, RowDefault(f))

RowLookup(item, f, existing) == Get(item, f, existing[f])

RowUpdate(existing, item) ==
    LET nums == FirstRaise([f \in NumFields |->
                   Coerce(f, RowLookup(item, f, existing))])
    IN  IF IsRaise(nums) THEN nums
        ELSE Ok(MakeSong(existing.id, Get(item, "title", JNull), RowClass(item),
                         existing.rating, nums.v))

RowCreate(s_id, item) ==
    LET nums == FirstRaise([f \in NumFields |->
                   Coerce(f, Get(item, f, RowDefault(f)))])
    IN  IF IsRaise(nums) THEN nums
        ELSE Ok(MakeSong(s_id, Get(item, "title", JNull), RowClass(item),
                         CreateRating(Get(item, "rating", JNull)), nums.v))

RowStep(st, item) ==
    IF ~IsContainer(item) THEN Fail(st, "TypeError")
    ELSE IF RowSkipTitle(item) THEN st
    ELSE IF ~IsDict(item) THEN Fail(st, "AttributeError")
    ELSE
      LET s_id == PyStr(Get(item, "id", JStr("")))
      IN  IF RowSkipId(s_id) THEN st
          ELSE Upsert(st, s_id,
                      [k \in 1..Len(st.rows) |-> RowUpdate(st.rows[k], item)],
                      RowCreate(s_id, item))

RECURSIVE RowLoopCommitting(_, _, _)
RowLoopCommitting(st, items, i) ==
    IF i > Len(items) \/ st.err # "none" THEN st
    ELSE RowLoopCommitting(Commit(RowStep(st, items[i])), items, i + 1)

RECURSIVE RowLoop(_, _, _)
RowLoop(st, items, i) ==
    IF i > Len(items) \/ st.err # "none" THEN st
    ELSE RowLoop(RowStep(st, items[i]), items, i + 1)

RECURSIVE SetToSeq(_)
SetToSeq(S) ==
    IF S = {} THEN <<>>
    ELSE LET x == CHOOSE x \in S : TRUE IN <<x>> \o SetToSeq(S \ {x})

\* what `for item in data` yields: the elements of a list, the keys of a
\* dict, the one-character strings of a str; anything else is not iterable
Iterate(data) ==
    CASE data.t = "list" -> Ok(data.l)
      [] data.t = "dict" -> Ok(SetToSeq({JStr(k) : k \in DOMAIN data.d}))
      [] data.t = "str" -> Ok([i \in 1..Len(data.s) |-> JStr("?")])
      [] OTHER -> Raise("TypeError")

\* the working sequence: data["songs"], [data], or data itself
WorkingUnwrapped(data) ==
    IF IsDict(data) /\ "songs" \in DOMAIN data.d THEN data.d["songs"]
    ELSE IF IsDict(data) \/ IsList(data) THEN data
    ELSE Raise("ValueError")

WorkingWrapsAny(data) ==
    IF IsDict(data) /\ "songs" \in DOMAIN data.d THEN data.d["songs"]
    ELSE IF IsList(data) THEN data
    ELSE JList(<<data>>)

Working(data) ==
    IF IsDict(data)
    THEN IF "songs" \in DOMAIN data.d THEN data.d["songs"] ELSE JList(<<data>>)
    ELSE IF ~IsList(data) THEN Raise("ValueError")
    ELSE data

\* len(data)
RowProcessedApplied(st, items) == Len(st.queries)

RowProcessed(st, items) == Len(items)

RowBranch(st, data) ==
    LET work == Working(data)
    IN  IF IsRaise(work) THEN Fail(st, work.e)
        ELSE
          LET items == Iterate(work)
          IN  IF IsRaise(items) THEN Fail(st, items.e)
              ELSE
                LET done == RowLoop(st, items.v, 1)
                IN  IF done.err # "none" THEN done
                    ELSE [Commit(done) EXCEPT
                              !.processed = RowProcessed(done, items.v)]

normalize_and_insert_data(data, rows) ==
    IF is_column_oriented(data)
    THEN ColumnBranch([Session(rows) EXCEPT !.branch = "column"], data)
    ELSE RowBranch([Session(rows) EXCEPT !.branch = "row"], data)

(***************************************************************************)
(* The requests the model sends.                                           *)
(***************************************************************************)
eMin == JDict(("id" :> JStr("a")) @@ ("title" :> JStr("T")))

eFull == JDict(("id" :> JStr("a")) @@ ("title" :> JStr("U"))
               @@ ("class" :> JStr("pop")) @@ ("song_class" :> JStr("alt"))
               @@ ("energy" :> JFlt(8)) @@ ("key" :> JStr("7"))
               @@ ("time_signature" :> JInt(3)) @@ ("rating" :> JInt(4)))

eEmptyId == JDict(("id" :> JStr("")) @@ ("title" :> JStr("T")))

eNoId == JDict("title" :> JStr("T"))

eNoTitle == JDict("id" :> JStr("b"))

eBad == JDict(("id" :> JStr("b")) @@ ("title" :> JStr("T"))
              @@ ("energy" :> JStr("x")))

eB == JDict(("id" :> JStr("b")) @@ ("title" :> JStr("T"))
            @@ ("song_class" :> JStr("alt")) @@ ("energy" :> JInt(1))
            @@ ("key" :> JFlt(27)))

Entries == {eMin, eFull, eEmptyId, eNoId, eNoTitle, eBad, eB}

Lists == UNION {[1..n -> Entries] : n \in 0..MaxBatch}

\* the same tracks as a column-oriented payload: one column per key, each
\* holding the value of every entry that has the key, under the entry's index
ColumnOf(l) ==
    LET keys == UNION {DOMAIN l[i].d : i \in 1..Len(l)}
    IN  JDict([k \in keys |->
                JDict([x \in {IndexNames[i] : i \in {j \in 1..Len(l) :
                                                    k \in DOMAIN l[j].d}} |->
                         l[CHOOSE i \in 1..Len(l) : IndexNames[i] = x].d[k]])])

Wrapped(v) == JDict("songs" :> v)

\* a track whose "title" and "class" are JSON null
eNullTitle == JDict(("id" :> JStr("b")) @@ ("title" :> JNull)
                    @@ ("class" :> JNull))

\* a track without a title; as a column-oriented payload it has no "title"
\* column
eUntitled == JDict(("id" :> JStr("b")) @@ ("energy" :> JFlt(5)))

OddPayloads ==
    {JStr("string"), JInt(5), JBool(TRUE), JNull, Wrapped(JInt(5)), Wrapped(eMin),
     Wrapped(JStr("ab")), JList(<<JInt(1), eMin>>), JList(<<JStr("ab"), eMin>>),
     ColumnOf(<<eUntitled>>)}

Payloads ==
    {JList(l) : l \in Lists}
      \cup {ColumnOf(l) : l \in Lists}
      \cup {Wrapped(JList(l)) : l \in {m \in Lists : Len(m) <= 1}}
      \cup Entries
      \cup OddPayloads

\* an uploaded file: its name ends in .json or not, its bytes decode as text
\* (content.decode()) or not, the text parses as JSON (to `data`) or not
Files ==
    {[name_ok |-> TRUE, text_ok |-> TRUE, json_ok |-> TRUE, data |-> p] :
        p \in Payloads}
      \cup {[name_ok |-> TRUE, text_ok |-> t, json_ok |-> FALSE, data |-> JNull] :
               t \in BOOLEAN}
      \cup {[name_ok |-> FALSE, text_ok |-> TRUE, json_ok |-> j,
              data |-> IF j THEN eMin ELSE JNull] : j \in BOOLEAN}

SongIds == {"a", "b", "zz"}
Ratings == {-1, 0, 5, 6}

\* page: Query(1, ge=1); limit: Query(10, ge=1, le=10000)
Pages == {1, 2, 3}
Limits == {1, 2}

\* sort_by: absent (""), a column, another attribute of the Song class, or a
\* name Song does not have; order: ^(asc|desc)$
SortColumns == {"rating", "key"}
SortNames == {""} \cup SortColumns \cup {"metadata", "bogus"}
Orders == {"asc", "desc"}

\* the `title` parameter of the search
SearchTitles == {"t", "U"}

(***************************************************************************)
(* The handlers.                                                           *)
(***************************************************************************)
NoRequest ==
    [op |-> "start", name_ok |-> FALSE, text_ok |-> FALSE, json_ok |-> FALSE,
     data |-> JNull,
     song_id |-> "", rating |-> 0, status |-> 0, err |-> "none",
     processed |-> 0, created |-> 0, count |-> 0, queries |-> <<>>,
     adds |-> 0, commits |-> 0, commit_at |-> <<>>, rollbacks |-> 0,
     branch |-> "none",
     stage |-> "none",
     page |-> 0, limit |-> 0, sort_by |-> "", order |-> "", title |-> "",
     items |-> <<>>, total |-> 0]

\* no request is being served: requests are served one at a time
Idle == last.op \in {"start", "lifespan"}


Ids(rows) == {rows[k].id : k \in 1..Len(rows)}

\* except Exception: HTTPException(status_code=500)
UploadStatusByKind(err) == IF err = "ValueError" THEN 400 ELSE 500

UploadStatus(err) == 500

\* how far upload_file gets: rejected on the file name, failing in
\* content.decode() of the bytes it has read, rejected by json.loads, or
\* calling the normalizer
UploadStage(file) ==
    IF ~file.name_ok THEN "name"
    ELSE IF ~file.text_ok THEN "bytes"
    ELSE IF ~file.json_ok THEN "decode"
    ELSE "normalize"

\* POST /api/songs/upload
upload_file(file) ==
    /\ Idle
    /\ \E r \in {normalize_and_insert_data(file.data, db)} :
         LET called == UploadStage(file) = "normalize"
             ok == called /\ r.err = "none"
             req == [NoRequest EXCEPT !.op = "upload", !.name_ok = file.name_ok,
                         !.text_ok = file.text_ok,
                         !.json_ok = file.json_ok, !.data = file.data,
                         !.stage = UploadStage(file)]
         IN  /\ prev' = db
             /\ db' = IF called THEN r.committed ELSE db
             /\ rated' = IF called
                         THEN [i \in Ids(r.committed) |->
                                 IF i \in Ids(db) THEN rated[i] ELSE 0]
                         ELSE rated
             /\ last' = IF req.stage = "bytes"
                        THEN [req EXCEPT
                                  !.status = UploadStatus("UnicodeDecodeError"),
                                  !.err = "UnicodeDecodeError"]
                        ELSE IF ~called THEN [req EXCEPT !.status = 400]
                        ELSE IF ok
                        THEN [req EXCEPT !.status = 200,
                                  !.processed = r.processed, !.created = r.added,
                                  !.queries = r.queries,
                                  !.adds = Len(r.rows) - Len(db),
                                  !.commits = r.commits,
                                  !.commit_at = r.commit_at,
                                  !.branch = r.branch]
                        ELSE [req EXCEPT !.status = UploadStatus(r.err),
                                  !.err = r.err, !.queries = r.queries,
                                  !.adds = Len(r.pending), !.commits = r.commits,
                                  !.commit_at = r.commit_at,
                                  !.branch = r.branch]
    /\ UNCHANGED uploads

\* request.rating < 0 or request.rating > 5
RatingRejectedNever(rating) == FALSE

RatingRejectedAbove(rating) == rating > 5

RatingRejected(rating) == rating < 0 \/ rating > 5

\* POST /api/songs/{song_id}/rate
rate_song(song_id, rating) ==
    LET k == Find(db, song_id)
        req == [NoRequest EXCEPT !.op = "rate", !.song_id = song_id,
                                 !.rating = rating]
    IN  /\ Idle
        /\ prev' = db
        /\ IF RatingRejected(rating)
           THEN /\ last' = [req EXCEPT !.status = 400]
                /\ UNCHANGED <<db, rated, uploads>>
           ELSE IF k = 0
           THEN /\ last' = [req EXCEPT !.status = 404, !.queries = <<song_id>>]
                /\ UNCHANGED <<db, rated, uploads>>
           ELSE /\ db' = [db EXCEPT ![k].rating = rating]
                /\ rated' = [rated EXCEPT ![song_id] = rating]
                /\ last' = [req EXCEPT !.status = 200, !.queries = <<song_id>>,
                                       !.commits = 1]
                /\ UNCHANGED uploads

\* the statement of delete_all_songs's try at which the database raises
DeleteFailures == {"none", "count", "delete", "commit"}

\* the try / except of delete_all_songs on a session: count, bulk delete,
\* commit; on an exception, rollback
DeleteAllUnrolled(st, fails) ==
    IF fails \in {"count", "delete"} THEN Fail(st, "Exception")
    ELSE IF fails = "commit"
    THEN Fail([st EXCEPT !.rows = <<>>, !.committed = <<>>], "Exception")
    ELSE Commit([st EXCEPT !.rows = <<>>])

DeleteAll(st, fails) ==
    IF fails \in {"count", "delete"} THEN Rollback(Fail(st, "Exception"))
    ELSE IF fails = "commit"
    THEN Rollback(Fail([st EXCEPT !.rows = <<>>], "Exception"))
    ELSE Commit([st EXCEPT !.rows = <<>>])

\* DELETE /api/songs/all
delete_all_songs(fails) ==
    LET req == [NoRequest EXCEPT !.op = "delete", !.stage = fails]
        r == DeleteAll(Session(db), fails)
    IN  /\ Idle
        /\ prev' = db
        /\ db' = r.committed
        /\ rated' = [i \in Ids(r.committed) |-> rated[i]]
        /\ last' = IF r.err = "none"
                   THEN [req EXCEPT !.status = 200, !.count = Len(db),
                                    !.commits = r.commits]
                   ELSE [req EXCEPT !.status = 500, !.err = r.err,
                                    !.commits = r.commits,
                                    !.rollbacks = 1]
        /\ UNCHANGED uploads

\* the value a column orders by
SortKey(row, col) == IF col = "rating" THEN row.rating ELSE row[col].n

\* query.order_by(column.asc()) / query.order_by(column.desc()): rows of equal
\* key stay in stored order
OrderBy(rows, col, order) ==
    LET Before(j, i) ==
            \/ IF order = "desc"
               THEN SortKey(rows[j], col) > SortKey(rows[i], col)
               ELSE SortKey(rows[j], col) < SortKey(rows[i], col)
            \/ SortKey(rows[j], col) = SortKey(rows[i], col) /\ j < i
        Rank(i) == 1 + Cardinality({j \in 1..Len(rows) : Before(j, i)})
    IN  [p \in 1..Len(rows) |-> rows[CHOOSE i \in 1..Len(rows) : Rank(i) = p]]

\* hasattr(Song, sort_by)
HasAttr(sort_by) == sort_by \in SortColumns \cup {"metadata"}

\* the query of get_songs: all rows, ordered when sort_by names an attribute
\* of Song; an attribute that is not a column has no asc() / desc()
SortedQuery(rows, sort_by, order) ==
    IF sort_by = "" \/ ~HasAttr(sort_by) THEN Ok(rows)
    ELSE IF sort_by \in SortColumns THEN Ok(OrderBy(rows, sort_by, order))
    ELSE Raise("AttributeError")

\* the lower-case letters of the titles the model stores
Letters(s) ==
    CASE s = "T" -> {"t"}
      [] s = "U" -> {"u"}
      [] s = "Unknown Title" -> {"u", "n", "k", "o", "w", " ", "t", "i", "l", "e"}
      [] OTHER -> {}

Lower(c) == CASE c = "U" -> "u" [] c = "T" -> "t" [] OTHER -> c

\* Song.title.ilike(f"%{title}%"), for a `title` of one letter
ILike(v, title) == v.t = "str" /\ Lower(title) \in Letters(v.s)

\* the query of search_songs
Filtered(rows, title) == SelectSeq(rows, LAMBDA r : ILike(r.title, title))

\* query.offset((page - 1) * limit).limit(limit).all()
OffsetLimitFromPage(result, page, limit) ==
    SubSeq(result, page * limit + 1,
           IF page * limit + limit < Len(result) THEN page * limit + limit
           ELSE Len(result))

OffsetLimit(result, page, limit) ==
    LET offset == (page - 1) * limit
    IN  SubSeq(result, offset + 1,
               IF offset + limit < Len(result) THEN offset + limit
               ELSE Len(result))

\* GET /api/songs
get_songs(page, limit, sort_by, order) ==
    LET req == [NoRequest EXCEPT !.op = "list", !.page = page, !.limit = limit,
                                 !.sort_by = sort_by, !.order = order]
        query == SortedQuery(db, sort_by, order)
    IN  /\ Idle
        /\ prev' = db
        /\ last' = IF IsRaise(query)
                   THEN [req EXCEPT !.status = 500, !.err = query.e]
                   ELSE [req EXCEPT !.status = 200, !.total = Len(query.v),
                             !.items = OffsetLimit(query.v, page, limit)]
        /\ UNCHANGED <<db, rated, uploads>>

\* GET /api/songs/search
search_songs(title, page, limit) ==
    LET req == [NoRequest EXCEPT !.op = "search", !.page = page,
                                 !.limit = limit, !.title = title]
        query == Filtered(db, title)
    IN  /\ Idle
        /\ prev' = db
        /\ last' = [req EXCEPT !.status = 200, !.total = Len(query),
                        !.items = OffsetLimit(query, page, limit)]
        /\ UNCHANGED <<db, rated, uploads>>

\* get_db's finally: the response has been produced and the request's
\* session is closed
CloseSessionSkipped ==
    /\ ~Idle
    /\ last' = [last EXCEPT !.stage = "left open"]
    /\ prev' = db
    /\ UNCHANGED <<db, rated, uploads>>

CloseSession ==
    /\ ~Idle
    /\ last' = NoRequest
    /\ prev' = db
    /\ UNCHANGED <<db, rated, uploads>>

\* Base.metadata.drop_all(bind=engine): the tables go, and their rows with them
drop_all_skipped(rows) == rows

drop_all(rows) == <<>>

\* Base.metadata.create_all(bind=engine): creates the tables that are missing
\* and leaves an existing table as it is
create_all(rows) == rows

\* the startup half of lifespan: the application (re)starts between requests
lifespan ==
    /\ Idle
    /\ prev' = db
    /\ db' = create_all(drop_all(db))
    /\ rated' = [i \in Ids(create_all(drop_all(db))) |-> rated[i]]
    /\ last' = [NoRequest EXCEPT !.op = "lifespan"]
    /\ UNCHANGED uploads

(***************************************************************************)
(* Uploads served at the same time by separate worker processes.  Each     *)
(* worker runs upload_file on a session of its own; the statements of the  *)
(* two sessions interleave at the database: one step per lookup of the row *)
(* loop, one for the commit, one for the close.  The race is between one   *)
(* upload of each worker, on the catalog as the startup left it.           *)
(***************************************************************************)
Workers == {1, 2}

RaceEntries == {eMin, eFull, eB, eBad}

RacePayloads ==
    {JList(l) : l \in UNION {[1..n -> RaceEntries] : n \in 1..MaxBatch}}

NoUpload ==
    [pc |-> "idle", st |-> Session(<<>>), items |-> <<>>, i |-> 0,
     status |-> 0, created |-> {}]

\* what a statement of a session sees of the table: the rows committed by
\* now, with the session's own unflushed changes on top
RefreshStale(st, table) == st

Refresh(st, table) ==
    [st EXCEPT
        !.rows = [k \in 1..Len(table) |->
                    IF k <= Len(st.rows) /\ st.rows[k] # st.committed[k]
                    THEN st.rows[k] ELSE table[k]],
        !.committed = table]

\* upload_file up to the row loop: the file is read and parsed, and the
\* payload is a list of tracks
upload_begin(w, data) ==
    /\ uploads[w].pc = "idle"
    /\ uploads' = [uploads EXCEPT ![w] =
                      [NoUpload EXCEPT !.pc = "loop",
                            !.st = [Session(db) EXCEPT !.branch = "row"],
                            !.items = Iterate(Working(data)).v, !.i = 1]]
    /\ UNCHANGED <<db, prev, last, rated>>

\* one pass of `for item in data`: a lookup, then an update or an add
upload_entry(w) ==
    LET u == uploads[w]
    IN  /\ u.pc = "loop"
        /\ u.i <= Len(u.items)
        /\ \E st \in {RowStep(Refresh(u.st, db), u.items[u.i])} :
              uploads' = [uploads EXCEPT ![w] =
                            IF st.err = "none"
                            THEN [u EXCEPT !.st = st, !.i = @ + 1]
                            ELSE [u EXCEPT !.st = st, !.pc = "done",
                                           !.status = UploadStatus(st.err)]]
        /\ UNCHANGED <<db, prev, last, rated>>

\* db.commit() after the loop, and the response
upload_commit(w) ==
    LET u == uploads[w]
    IN  /\ u.pc = "loop"
        /\ u.i > Len(u.items)
        /\ \E st \in {Commit(Refresh(u.st, db))} :
              /\ db' = st.committed
              /\ uploads' = [uploads EXCEPT ![w] =
                               IF st.err = "none"
                               THEN [u EXCEPT !.st = st, !.pc = "done",
                                              !.status = 200,
                                              !.created = Ids(u.st.pending)]
                               ELSE [u EXCEPT !.st = st, !.pc = "done",
                                         !.status = UploadStatus(st.err)]]
        /\ UNCHANGED <<prev, last, rated>>

\* get_db's finally for the worker's session
upload_close(w) ==
    /\ uploads[w].pc = "done"
    /\ uploads' = [uploads EXCEPT ![w] = [NoUpload EXCEPT !.pc = "closed"]]
    /\ UNCHANGED <<db, prev, last, rated>>

Init ==
    /\ db = <<>>
    /\ prev = <<>>
    /\ last = NoRequest
    /\ rated = <<>>
    /\ uploads = [w \in Workers |-> NoUpload]

NextRace ==
    \/ \E w \in Workers, data \in RacePayloads : upload_begin(w, data)
    \/ \E w \in Workers : upload_entry(w)
    \/ \E w \in Workers : upload_commit(w)
    \/ \E w \in Workers : upload_close(w)

SpecRace == Init /\ [][NextRace]_vars

Next ==
    \/ \E file \in Files : upload_file(file)
    \/ \E song_id \in SongIds, rating \in Ratings : rate_song(song_id, rating)
    \/ \E fails \in DeleteFailures : delete_all_songs(fails)
    \/ \E page \in Pages, limit \in Limits, sort_by \in SortNames, order \in Orders :
          get_songs(page, limit, sort_by, order)
    \/ \E title \in SearchTitles, page \in Pages, limit \in Limits :
          search_songs(title, page, limit)
    \/ CloseSession
    \/ lifespan

Spec == Init /\ [][Next]_vars

(***************************************************************************)
(* Vocabulary of the properties.                                           *)
(***************************************************************************)
\* normalize_and_insert_data was called by the request being served
Called == last.op = "upload" /\ last.name_ok /\ last.json_ok

\* ... and returned its summary
Succeeded == Called /\ last.status = 200

RowOriented(data) == data.t \in {"dict", "list"} /\ ~is_column_oriented(data)

\* the entries of a row-oriented payload, in payload order
RowEntries(data) ==
    IF ~RowOriented(data) \/ IsRaise(Iterate(Working(data))) THEN <<>>
    ELSE Iterate(Working(data)).v

EntryId(e) == IF IsDict(e) THEN PyStr(Get(e, "id", JStr(""))) ELSE ""

\* a row entry that is not skipped: it has a title and a non-empty identifier
Applied(e) == IsDict(e) /\ "title" \in DOMAIN e.d /\ EntryId(e) # ""

\* the indices of a column-oriented payload, in payload order
ColIndices(data) ==
    IF is_column_oriented(data) /\ "id" \in DOMAIN data.d
    THEN KeysInOrder(data.d["id"]) ELSE <<>>

\* the entries of a payload of either shape, each with the identifier it
\* names and whether the rules of ingestion skip it
Tracks(data) ==
    IF is_column_oriented(data)
    THEN [i \in 1..Len(ColIndices(data)) |->
            LET s == PyStr(data.d["id"].d[ColIndices(data)[i]])
            IN  [id |-> s, skipped |-> s = ""]]
    ELSE [i \in 1..Len(RowEntries(data)) |->
            [id |-> EntryId(RowEntries(data)[i]),
             skipped |-> ~Applied(RowEntries(data)[i])]]

AppliedIds(data) ==
    {Tracks(data)[i].id : i \in {j \in 1..Len(Tracks(data)) : ~Tracks(data)[j].skipped}}

SkippedCount(data) ==
    Cardinality({j \in 1..Len(Tracks(data)) : Tracks(data)[j].skipped})

Row(rows, s_id) == rows[Find(rows, s_id)]

\* the positions of the applied row entries naming s_id that carry a key of `keys`
Carrying(items, s_id, keys) ==
    {i \in 1..Len(items) :
        Applied(items[i]) /\ EntryId(items[i]) = s_id
            /\ DOMAIN items[i].d \cap keys # {}}

Latest(S) == CHOOSE i \in S : \A j \in S : j <= i

\* the classLabel the rule of C1 leaves: that of the last entry carrying a key
ClassAfter(items, s_id, before) ==
    LET S == Carrying(items, s_id, {"class", "song_class"})
    IN  IF S = {} THEN before
        ELSE LET e == items[Latest(S)]
             IN  IF "class" \in DOMAIN e.d THEN e.d["class"] ELSE e.d["song_class"]

(***************************************************************************)
(* C1.  A row-oriented update sets classLabel from "class", else from      *)
(* "song_class", and keeps the stored classLabel when the entry has        *)
(* neither key.  Stated for the identifiers that exactly one entry of the  *)
(* payload names.                                                          *)
(***************************************************************************)
C1_RowUpdateKeepsClass ==
    (Succeeded /\ RowOriented(last.data)) =>
        \A s_id \in Ids(prev) :
            Cardinality(Carrying(RowEntries(last.data), s_id, {"title"})) = 1 =>
                Row(db, s_id).song_class =
                    ClassAfter(RowEntries(last.data), s_id,
                               Row(prev, s_id).song_class)

\* the value the rule of C5 leaves in numeric attribute f
NumAfter(items, s_id, f, before) ==
    LET S == Carrying(items, s_id, {f})
    IN  IF S = {} THEN before ELSE Coerce(f, items[Latest(S)].d[f])

(***************************************************************************)
(* C5.  A row-oriented update keeps every numeric attribute whose key is   *)
(* absent from the entry and overwrites every numeric attribute whose key  *)
(* is present with the coerced supplied value.                             *)
(***************************************************************************)
C5_RowUpdateMergesNumerics ==
    (Succeeded /\ RowOriented(last.data)) =>
        \A s_id \in Ids(prev) \cap AppliedIds(last.data) : \A f \in NumFields :
            Row(db, s_id)[f] =
                NumAfter(RowEntries(last.data), s_id, f, Row(prev, s_id)[f])

\* the update {"id": "a", "title": "T"} left energy at 0.8 and key at 7, the
\* values an earlier entry had overwritten them with (float 0.8, int("7"))
C5_Witness ==
    /\ Succeeded
    /\ last.data = JList(<<eMin>>)
    /\ "a" \in Ids(prev)
    /\ Row(prev, "a").energy = JFlt(8)
    /\ Row(db, "a").energy = JFlt(8)
    /\ Row(db, "a").key = JInt(7)

(***************************************************************************)
(* C2.  As claimed: a skipped entry adds nothing to the processed count    *)
(* and nothing to the created count of the summary.                        *)
(***************************************************************************)
C2_SkippedInNeitherCount ==
    Succeeded =>
        /\ last.processed = Len(Tracks(last.data)) - SkippedCount(last.data)
        /\ last.created = Cardinality(AppliedIds(last.data) \ Ids(prev))

(***************************************************************************)
(* C2, amended.  A skipped entry adds nothing to the created count, which  *)
(* is the number of records the call added, all of them named by entries   *)
(* that were not skipped; the processed count is the number of entries of  *)
(* the payload, the skipped ones included.                                 *)
(***************************************************************************)
C2_SkippedOnlyInProcessed ==
    Succeeded =>
        /\ last.processed = Len(Tracks(last.data))
        /\ last.created = Cardinality(AppliedIds(last.data) \ Ids(prev))
        /\ last.created = Len(db) - Len(prev)
        /\ Ids(db) \ Ids(prev) = AppliedIds(last.data) \ Ids(prev)

\* an entry skipped for its empty identifier, followed by one that is
\* created: two processed, one created
C2_Witness ==
    /\ Succeeded
    /\ last.data = JList(<<eEmptyId, eMin>>)
    /\ last.processed = 2
    /\ last.created = 1

\* every value the payload supplies for a numeric attribute is coercible
Coercible(data) ==
    IF is_column_oriented(data)
    THEN \A f \in NumFields \cap DOMAIN data.d : \A x \in DOMAIN data.d[f].d :
            ~IsRaise(Coerce(f, data.d[f].d[x]))
    ELSE \A i \in 1..Len(RowEntries(data)) :
            IsDict(RowEntries(data)[i]) =>
                \A f \in NumFields \cap DOMAIN RowEntries(data)[i].d :
                    ~IsRaise(Coerce(f, RowEntries(data)[i].d[f]))

(***************************************************************************)
(* C3.  Ingestion of a mapping or a sequence whose supplied numeric values *)
(* are all coercible returns a summary: it raises only on an invalid       *)
(* top-level shape (a failed commit apart, which is a persistence error).  *)
(***************************************************************************)
C3_RaisesOnlyOnInvalidShape ==
    (/\ Called
     /\ last.data.t \in {"dict", "list"}
     /\ Coercible(last.data)
     /\ last.err # "IntegrityError") => last.status = 200

(***************************************************************************)
(* C4.  Idempotent re-ingestion: after a payload has been ingested, the    *)
(* same payload ingested again reports 0 created songs and leaves every    *)
(* attribute of every record as the first call left it.                    *)
(***************************************************************************)
C4_ReingestionIsIdempotent ==
    Succeeded =>
        LET again == normalize_and_insert_data(last.data, db)
        IN  /\ again.err = "none"
            /\ again.added = 0
            /\ again.rows = db
            /\ again.processed = last.processed

\* a first call that created one record and updated another
C4_Witness ==
    /\ Succeeded
    /\ last.created = 1
    /\ Len(prev) = 1
    /\ db[1] # prev[1]
    /\ Len(db) = 2

\* a logical track: a mapping of scalar values with an identifier and a title
IsTrack(e) ==
    /\ {"id", "title"} \subseteq DOMAIN e.d
    /\ EntryId(e) # ""
    /\ \A k \in DOMAIN e.d : e.d[k].t \in {"str", "int", "float"}

\* the catalog a request leaves when ingesting `data` from `rows`
Outcome(data, rows) ==
    LET r == normalize_and_insert_data(data, rows)
    IN  IF r.err = "none" THEN r.rows ELSE rows

(***************************************************************************)
(* C6.  As claimed: a track ingested as a column-oriented payload leaves   *)
(* the catalog that the same track, ingested from the same catalog as a    *)
(* row-oriented payload, would leave; optional keys may be omitted.        *)
(***************************************************************************)
C6_ColumnRowEquivalent ==
    \A e \in {x \in Entries : IsTrack(x)} :
        (Called /\ last.data = ColumnOf(<<e>>)) =>
            db = Outcome(JList(<<e>>), prev)

IsClassedTrack(e) ==
    /\ IsTrack(e)
    /\ "class" \in DOMAIN e.d
    /\ e.d["title"].t = "str"
    /\ e.d["class"].t = "str"

\* tracks with a class: every choice of identifier and of the optional keys
Absent == [t |-> "absent"]

ClassedTracks ==
    {JDict([k \in {x \in DOMAIN o : o[x] # Absent} |-> o[k]]) :
        o \in [id : {JStr("a"), JInt(7)},
               title : {JStr("U")},
               class : {JStr("pop")},
               song_class : {Absent, JStr("alt")},
               energy : {Absent, JFlt(8), JStr("x")},
               key : {Absent, JStr("7"), JFlt(27)},
               time_signature : {Absent, JInt(3)}]}

(***************************************************************************)
(* C6, amended.  The two shapes leave the same catalog, on creation and on *)
(* update, when the track supplies "class" and its title and class are     *)
(* strings; the numeric keys may be omitted.                               *)
(***************************************************************************)
C6_ColumnRowEquivalentWithClass ==
    /\ \A e \in {x \in Entries : IsClassedTrack(x)} :
          /\ (Called /\ last.data = ColumnOf(<<e>>)) =>
                db = Outcome(JList(<<e>>), prev)
          /\ (Called /\ last.data = JList(<<e>>)) =>
                db = Outcome(ColumnOf(<<e>>), prev)
    /\ Idle =>
          \A e \in ClassedTracks :
              /\ IsClassedTrack(e)
              /\ Outcome(ColumnOf(<<e>>), db) = Outcome(JList(<<e>>), db)

\* a column-oriented update of an existing record by a track with a class
C6_Witness ==
    /\ Succeeded
    /\ last.data = ColumnOf(<<eFull>>)
    /\ last.created = 0
    /\ db # prev
    /\ db = Outcome(JList(<<eFull>>), prev)

InvalidShape(data) == data.t \notin {"dict", "list"}

(***************************************************************************)
(* C7.  As claimed: an upload whose JSON value is neither a mapping nor a  *)
(* sequence is answered with a 4xx status.                                 *)
(***************************************************************************)
C7_InvalidFormatIs4xx ==
    (Called /\ InvalidShape(last.data)) =>
        (last.status >= 400 /\ last.status < 500)

(***************************************************************************)
(* C7, amended.  Such an upload is answered with status 500 (the           *)
(* ValueError is caught by the handler's catch-all), the catalog unchanged.*)
(***************************************************************************)
C7_InvalidFormatIs500 ==
    (Called /\ InvalidShape(last.data)) =>
        /\ last.status = 500
        /\ last.err = "ValueError"
        /\ db = prev

C7_Witness ==
    /\ Called
    /\ last.data = JStr("string")
    /\ last.status = 500
    /\ Len(db) > 0

(***************************************************************************)
(* C8.  Only rate_song changes a rating: every record's rating is the one  *)
(* last stored by rate_song since the record was created, 0 if none;       *)
(* ingestion creates with rating 0 and leaves existing ratings alone,      *)
(* whatever "rating" the payload carries.                                  *)
(***************************************************************************)
C8_RatingOnlyByRateSong ==
    /\ \A k \in 1..Len(db) : db[k].rating = rated[db[k].id]
    /\ Called =>
          \A k \in 1..Len(db) :
              db[k].rating = IF db[k].id \in Ids(prev)
                             THEN Row(prev, db[k].id).rating ELSE 0

\* a payload carrying "rating": 4 updated a record rated 5 and left it at 5
C8_Witness ==
    /\ Succeeded
    /\ \E i \in 1..Len(RowEntries(last.data)) : RowEntries(last.data)[i] = eFull
    /\ "a" \in Ids(prev)
    /\ Row(prev, "a").rating = 5
    /\ Row(db, "a").rating = 5
    /\ Row(db, "a") # Row(prev, "a")

(***************************************************************************)
(* C9.  No two persisted records share an identifier.                      *)
(***************************************************************************)
C9_IdentifierUnique ==
    \A i, j \in 1..Len(db) : db[i].id = db[j].id => i = j

\* a payload naming one new identifier twice was refused at commit and left
\* the catalog with the one record it held
C9_Witness ==
    /\ Called
    /\ last.err = "IntegrityError"
    /\ last.adds = 2
    /\ Len(db) = 1
    /\ db = prev

(***************************************************************************)
(* C10.  An entry with an empty identifier (or, in a row payload, without  *)
(* an "id" key) reaches no query and no add, no record with an empty       *)
(* identifier exists, and the other entries of the batch are processed.    *)
(***************************************************************************)
C10_EmptyIdNeverReachesRepository ==
    /\ \A k \in 1..Len(db) : db[k].id # ""
    /\ Called => \A q \in 1..Len(last.queries) : last.queries[q] # ""
    /\ Succeeded =>
          /\ Len(last.queries) = Len(Tracks(last.data)) - SkippedCount(last.data)
          /\ AppliedIds(last.data) \subseteq Ids(db)
          /\ Ids(db) \subseteq Ids(prev) \cup AppliedIds(last.data)

\* an empty identifier, a missing "id" key, and the entry after them created
C10_Witness ==
    /\ Succeeded
    /\ \E i, j \in 1..Len(Tracks(last.data)) :
          /\ i < j
          /\ Tracks(last.data)[i].skipped
          /\ Tracks(last.data)[i].id = ""
          /\ ~Tracks(last.data)[j].skipped
          /\ Tracks(last.data)[j].id \notin Ids(prev)
    /\ last.created = 1
    /\ last.queries = <<"b">>

(***************************************************************************)
(* C11.  Ingestion is append-or-merge only: every identifier of the        *)
(* catalog before the call is in the catalog after it, and every record    *)
(* whose identifier no non-skipped entry of the payload names has all its  *)
(* attributes unchanged.                                                   *)
(***************************************************************************)
C11_AppendOrMergeOnly ==
    Called =>
        /\ Ids(prev) \subseteq Ids(db)
        /\ Len(db) >= Len(prev)
        /\ \A s_id \in Ids(prev) \ AppliedIds(last.data) :
              Row(db, s_id) = Row(prev, s_id)

\* a call that changed record "a" while a skipped entry named record "b":
\* "b" is as it was
C11_Witness ==
    /\ Succeeded
    /\ last.data = JList(<<eNoTitle, eFull>>)
    /\ {"a", "b"} \subseteq Ids(prev)
    /\ Row(db, "a") # Row(prev, "a")
    /\ Row(db, "b") = Row(prev, "b")

(***************************************************************************)
(* C12.  A parsed value that is neither a mapping nor a sequence (string,  *)
(* number, boolean, null) makes normalize_and_insert_data raise ValueError *)
(* before any query, add or commit: the catalog is unchanged.              *)
(***************************************************************************)
C12_InvalidShapeMutatesNothing ==
    (Called /\ InvalidShape(last.data)) =>
        /\ last.err = "ValueError"
        /\ last.queries = <<>>
        /\ last.adds = 0
        /\ last.commits = 0
        /\ db = prev

\* the value `true` uploaded to a catalog holding two records
C12_Witness ==
    /\ Called
    /\ last.data = JBool(TRUE)
    /\ last.err = "ValueError"
    /\ Len(db) = 2
    /\ db = prev

(***************************************************************************)
(* C13.  A failed ingestion call is atomic: when the call ends in an error *)
(* (a numeric value that cannot be coerced, or a failed commit), none of   *)
(* the creates and updates made for the entries before the failure is      *)
(* persisted, and what earlier calls committed is as it was.               *)
(***************************************************************************)
C13_FailedCallIsAtomic ==
    (Called /\ last.status # 200) =>
        /\ db = prev
        /\ last.commits = 0

\* the second entry's energy "x" failed after the first entry had been
\* looked up and a record made for it, and after an earlier call's commit
C13_Witness ==
    /\ Called
    /\ last.data = JList(<<eFull, eBad>>)
    /\ last.err = "ValueError"
    /\ last.queries = <<"a", "b">>
    /\ last.adds = 1
    /\ Ids(db) = {"b"}
    /\ db = prev

\* the positions of the indices naming s_id at which column `col` has a value
ColCarrying(data, s_id, col) ==
    {i \in 1..Len(ColIndices(data)) :
        /\ PyStr(data.d["id"].d[ColIndices(data)[i]]) = s_id
        /\ col \in DOMAIN data.d
        /\ ColIndices(data)[i] \in DOMAIN data.d[col].d}

ColumnName(f) == IF f = "song_class" THEN "class" ELSE f

\* the value the rule of C14 leaves in attribute f: the coerced value of the
\* last index supplying one, the stored value if none does
ColAfter(data, s_id, f, before) ==
    LET S == ColCarrying(data, s_id, ColumnName(f))
    IN  IF S = {} THEN before
        ELSE LET v == data.d[ColumnName(f)].d[ColIndices(data)[Latest(S)]]
             IN  IF f \in NumFields THEN Coerce(f, v) ELSE JStr(PyStr(v))

(***************************************************************************)
(* C14.  A column-oriented update merges per field and per index: every    *)
(* attribute whose column has a value at the index is overwritten with the *)
(* coerced value, and every attribute whose column is missing or lacks the *)
(* index, title and classLabel included, keeps its stored value.           *)
(***************************************************************************)
C14_ColumnUpdateMergesPerField ==
    (/\ Called
     /\ is_column_oriented(last.data)
     /\ Coercible(last.data)
     /\ last.err # "IntegrityError") =>
        \A s_id \in Ids(prev) \cap AppliedIds(last.data) :
            \A f \in NumFields \cup {"title", "song_class"} :
                Row(db, s_id)[f] =
                    ColAfter(last.data, s_id, f, Row(prev, s_id)[f])

\* the field set a column-oriented payload supplies at index idx
EntryAt(data, idx) ==
    JDict([k \in {c \in DOMAIN data.d : idx \in DOMAIN data.d[c].d} |->
              data.d[k].d[idx]])

\* the fixed defaults of the data model
DefaultOf(f) ==
    IF f = "time_signature" THEN JInt(4)
    ELSE IF f \in FloatFields THEN JFlt(0)
    ELSE JInt(0)

\* the record C15 expects for a new identifier, from the field set e of a
\* column-oriented (column = TRUE) or row-oriented payload
Expected(e, column) ==
    [f \in SongFields |->
        CASE f = "id" -> EntryId(e)
          [] f = "rating" -> 0
          [] f = "title" ->
                IF ~column THEN e.d["title"]
                ELSE IF "title" \in DOMAIN e.d THEN JStr(PyStr(e.d["title"]))
                ELSE JStr("Unknown Title")
          [] f = "song_class" ->
                IF column
                THEN IF "class" \in DOMAIN e.d THEN JStr(PyStr(e.d["class"]))
                     ELSE JStr("0")
                ELSE IF "class" \in DOMAIN e.d THEN e.d["class"]
                ELSE IF "song_class" \in DOMAIN e.d THEN e.d["song_class"]
                ELSE JStr("")
          [] OTHER -> IF f \in DOMAIN e.d THEN Coerce(f, e.d[f]) ELSE DefaultOf(f)]

\* tracks with every choice of identifier and of the optional keys
SampleTracks ==
    {JDict([k \in {x \in DOMAIN o : o[x] # Absent} |-> o[k]]) :
        o \in [id : {JStr("a"), JInt(7)},
               title : {JStr("U")},
               class : {Absent, JStr("pop")},
               song_class : {Absent, JStr("alt")},
               energy : {Absent, JFlt(8), JStr("9")},
               key : {Absent, JStr("7"), JFlt(27)},
               time_signature : {Absent, JInt(3)}]}

(***************************************************************************)
(* C15.  Creation fills every unspecified field with its fixed default: a  *)
(* record created from id and title only has rating 0, time_signature 4,   *)
(* every other numeric attribute 0 or 0.0, and classLabel "0" (column      *)
(* payload) or "" (row payload); every supplied field takes the coerced    *)
(* supplied value.                                                         *)
(***************************************************************************)
C15_CreationFillsDefaults ==
    /\ (Succeeded /\ is_column_oriented(last.data)) =>
          \A i \in 1..Len(ColIndices(last.data)) :
              LET e == EntryAt(last.data, ColIndices(last.data)[i])
              IN  (EntryId(e) # "" /\ EntryId(e) \notin Ids(prev)) =>
                      Row(db, EntryId(e)) = Expected(e, TRUE)
    /\ (Succeeded /\ RowOriented(last.data)) =>
          \A i \in 1..Len(RowEntries(last.data)) :
              LET e == RowEntries(last.data)[i]
              IN  (Applied(e) /\ EntryId(e) \notin Ids(prev)) =>
                      Row(db, EntryId(e)) = Expected(e, FALSE)
    /\ Idle =>
          \A e \in SampleTracks :
              EntryId(e) \notin Ids(db) =>
                  /\ Outcome(ColumnOf(<<e>>), db) = Append(db, Expected(e, TRUE))
                  /\ Outcome(JList(<<e>>), db) = Append(db, Expected(e, FALSE))

\* a column-oriented payload created "a" from id and title only and "b" from
\* supplied values: energy 1 became 1.0, key 2.7 became 2
C15_Witness ==
    /\ Succeeded
    /\ last.data = ColumnOf(<<eMin, eB>>)
    /\ last.created = 2
    /\ Row(db, "a").song_class = JStr("0")
    /\ Row(db, "a").time_signature = JInt(4)
    /\ Row(db, "a").energy = JFlt(0)
    /\ Row(db, "a").rating = 0
    /\ Row(db, "b").energy = JFlt(10)
    /\ Row(db, "b").key = JInt(2)

(***************************************************************************)
(* C16.  Column-oriented creation never leaves the title unset: a record   *)
(* created for an index at which the payload supplies no title, because    *)
(* the "title" column lacks the index or because the payload has no        *)
(* "title" column, has the title "Unknown Title".                          *)
(***************************************************************************)
C16_ColumnCreateTitleDefault ==
    (/\ Called
     /\ is_column_oriented(last.data)
     /\ Coercible(last.data)
     /\ last.err # "IntegrityError") =>
        \A i \in 1..Len(ColIndices(last.data)) :
            LET e == EntryAt(last.data, ColIndices(last.data)[i])
            IN  (/\ EntryId(e) # ""
                 /\ EntryId(e) \notin Ids(prev)
                 /\ "title" \notin DOMAIN e.d) =>
                    /\ EntryId(e) \in Ids(db)
                    /\ Row(db, EntryId(e)).title = JStr("Unknown Title")

\* track entries with identifier "a", a title and only scalar values
ScalarTracks ==
    {e \in ClassedTracks \cup SampleTracks : e.d["id"] = JStr("a")}
        \cup {JDict(eMin.d @@ ("songs" :> JInt(5)))}

\* the counts the summary reports
Summary(r) == <<r.processed, r.added>>

\* ingested from `rows`, the three row-oriented shapes of e give one result
SameResult(e, rows) ==
    LET w == normalize_and_insert_data(Wrapped(JList(<<e>>)), rows)
        l == normalize_and_insert_data(JList(<<e>>), rows)
        b == normalize_and_insert_data(e, rows)
    IN  /\ w.err = l.err /\ l.err = b.err
        /\ w.committed = l.committed /\ l.committed = b.committed
        /\ Summary(w) = Summary(l) /\ Summary(l) = Summary(b)

\* ... and that result is one record "a" created
OneCreated(e, rows) ==
    LET l == normalize_and_insert_data(JList(<<e>>), rows)
    IN  /\ l.err = "none"
        /\ Len(l.committed) = Len(rows) + 1
        /\ SubSeq(l.committed, 1, Len(rows)) = rows
        /\ l.committed[Len(rows) + 1].id = "a"
        /\ Summary(l) = <<1, 1>>

RowShapes(e) == {Wrapped(JList(<<e>>)), JList(<<e>>), e}

(***************************************************************************)
(* C17.  As claimed: on a catalog without identifier "a", the payloads     *)
(* {"songs": [E]}, [E] and E, for any track entry E with id "a", a title   *)
(* and only scalar values, each create exactly one record "a", with the    *)
(* same attributes and the same summary.                                   *)
(***************************************************************************)
C17_RowShapesEquivalent ==
    Idle =>
        \A e \in ScalarTracks :
            "a" \notin Ids(db) => (SameResult(e, db) /\ OneCreated(e, db))

\* a track whose three shapes C17 as amended covers: no "songs" key, every
\* supplied numeric value coercible
Plain(e) == "songs" \notin DOMAIN e.d /\ Coercible(JList(<<e>>))

(***************************************************************************)
(* C17, amended.  For a track entry E with id "a", a title, no "songs" key *)
(* and only scalar values, the three shapes give the same outcome on a     *)
(* catalog without "a": one record "a" created, with the same attributes   *)
(* and the same summary, when every numeric value of E is coercible; the   *)
(* same error and nothing created when one is not.                         *)
(***************************************************************************)
C17_PlainRowShapesEquivalent ==
    /\ \A e \in {eMin, eFull} : \A p \in RowShapes(e) :
          (Called /\ last.data = p /\ "a" \notin Ids(prev)) =>
              /\ Succeeded
              /\ last.processed = 1 /\ last.created = 1
              /\ \A q \in RowShapes(e) : db = Outcome(q, prev)
              /\ Ids(db) = Ids(prev) \cup {"a"}
    /\ Idle =>
          \A e \in {x \in ScalarTracks : "songs" \notin DOMAIN x.d} :
              "a" \notin Ids(db) =>
                  /\ SameResult(e, db)
                  /\ IF Plain(e) THEN OneCreated(e, db)
                     ELSE Outcome(e, db) = db

\* the bare mapping created record "a" in a catalog holding "b", as the
\* wrapped list of the same entry would have
C17_Witness ==
    /\ Succeeded
    /\ last.data = eFull
    /\ Ids(prev) = {"b"}
    /\ last.created = 1
    /\ last.processed = 1
    /\ db = Outcome(Wrapped(JList(<<eFull>>)), prev)
    /\ Row(db, "a").title = JStr("U")

\* the number of entries of the working sequence of a row-oriented payload
WorkingLen(data) ==
    LET v == IF IsList(data) THEN data
             ELSE IF "songs" \in DOMAIN data.d THEN data.d["songs"]
             ELSE JList(<<data>>)
    IN  CASE v.t = "list" -> Len(v.l)
          [] v.t = "str" -> Len(v.s)
          [] v.t = "dict" -> Cardinality(DOMAIN v.d)

(***************************************************************************)
(* C18.  The success summary accounts for the batch: the processed count   *)
(* is the number of keys of the "id" column (column mode) or of entries of *)
(* the working sequence (row mode; 1 for a bare single mapping), the       *)
(* created count is the number of records the call added to the catalog,   *)
(* and created never exceeds processed.                                    *)
(***************************************************************************)
C18_SummaryAccountsForBatch ==
    Succeeded =>
        /\ last.processed =
              IF is_column_oriented(last.data)
              THEN Cardinality(DOMAIN last.data.d["id"].d)
              ELSE WorkingLen(last.data)
        /\ last.created = Len(db) - Len(prev)
        /\ last.created = Cardinality(Ids(db) \ Ids(prev))
        /\ last.created <= last.processed
        /\ \A e \in Entries : last.data = e => last.processed = 1

\* a column-oriented payload of two indices, one updating "a" and one
\* creating "b": 2 processed, 1 created
C18_Witness ==
    /\ Succeeded
    /\ last.data = ColumnOf(<<eMin, eB>>)
    /\ Ids(prev) = {"a"}
    /\ Ids(db) = {"a", "b"}
    /\ last.processed = 2
    /\ last.created = 1

\* rate_song is the request being served
Rating == last.op = "rate"

(***************************************************************************)
(* C19.  Every stored rating lies in 0..5 in every reachable state:        *)
(* records are created with rating 0 and rate_song stores only a rating r  *)
(* with 0 <= r <= 5, both bounds accepted.                                 *)
(***************************************************************************)
C19_RatingInRange ==
    /\ \A k \in 1..Len(db) : db[k].rating \in 0..5
    /\ (Rating /\ last.rating \in {0, 5} /\ last.song_id \in Ids(prev)) =>
          /\ last.status = 200
          /\ Row(db, last.song_id).rating = last.rating

\* the upper bound 5 stored on a record that was rated 0
C19_Witness ==
    /\ Rating
    /\ last.status = 200
    /\ last.rating = 5
    /\ Row(prev, last.song_id).rating = 0
    /\ Row(db, last.song_id).rating = 5

(***************************************************************************)
(* C20.  A rejected rating request changes nothing: rate_song answers 400  *)
(* when the rating is below 0 or above 5, checked before the song is       *)
(* looked up and so also for an unknown song, and 404 when the rating is   *)
(* valid but the identifier unknown; in both cases no record is modified   *)
(* and no commit is issued.                                                *)
(***************************************************************************)
C20_RejectedRatingChangesNothing ==
    Rating =>
        /\ (last.rating < 0 \/ last.rating > 5) =>
              (last.status = 400 /\ last.queries = <<>>)
        /\ (last.rating \in 0..5 /\ last.song_id \notin Ids(prev)) =>
              (last.status = 404 /\ last.queries = <<last.song_id>>)
        /\ last.status \in {400, 404} =>
              (db = prev /\ last.commits = 0 /\ DOMAIN rated = Ids(db))
        /\ last.status = 200 =>
              (last.rating \in 0..5 /\ last.song_id \in Ids(prev))

\* rating 6 for the unknown song "zz": 400, not 404, and no lookup
C20_Witness ==
    /\ Rating
    /\ last.song_id = "zz"
    /\ last.rating = 6
    /\ last.status = 400
    /\ last.queries = <<>>
    /\ Len(db) = 2
    /\ db = prev

\* upload_file is the request being served
Uploading == last.op = "upload"

(***************************************************************************)
(* C21.  Upload input validation precedes any processing: a file whose     *)
(* name does not end in ".json" is rejected with 400 before its content is *)
(* read, content that is not valid JSON is rejected with 400, and in both  *)
(* cases normalize_and_insert_data is not called and the catalog is        *)
(* unchanged.                                                              *)
(***************************************************************************)
C21_ValidationPrecedesProcessing ==
    /\ (Uploading /\ ~last.name_ok) =>
          (last.status = 400 /\ last.stage = "name")
    /\ (Uploading /\ last.name_ok /\ ~last.json_ok) =>
          (last.status = 400 /\ last.stage \in {"bytes", "decode"})
    /\ (Uploading /\ ~(last.name_ok /\ last.json_ok)) =>
          /\ db = prev
          /\ last.queries = <<>> /\ last.adds = 0 /\ last.commits = 0
          /\ DOMAIN rated = Ids(db)

\* a listing or a search has been answered
Listed == last.op \in {"list", "search"} /\ last.status = 200

\* the result the answered request paginates: the filtered records of a
\* search, the (optionally sorted) records of a listing
Result ==
    IF last.op = "search" THEN Filtered(db, last.title)
    ELSE SortedQuery(db, last.sort_by, last.order).v

\* the keys of an ordered result do not decrease (asc) or increase (desc)
InOrder(result, col, order) ==
    \A i, j \in 1..Len(result) :
        i < j => IF order = "desc"
                 THEN SortKey(result[i], col) >= SortKey(result[j], col)
                 ELSE SortKey(result[i], col) <= SortKey(result[j], col)

(***************************************************************************)
(* C22.  Listing and search pagination: for page p >= 1 and limit l >= 1   *)
(* the returned items are the records at positions (p-1)*l .. (p-1)*l+l-1  *)
(* (counted from 0) of the optionally sorted or filtered result, so at     *)
(* most l items are returned and distinct pages of the same unchanged      *)
(* result share no record; "total" is the count of the whole result.       *)
(***************************************************************************)
C22_Pagination ==
    Listed =>
        LET p == last.page
            l == last.limit
            n == Len(last.items)
        IN  /\ db = prev
            /\ last.total = Len(Result)
            /\ last.op = "list" =>
                  /\ Len(Result) = Len(db)
                  /\ Ids(Result) = Ids(db)
                  /\ last.sort_by \in SortColumns =>
                        InOrder(Result, last.sort_by, last.order)
            /\ last.op = "search" =>
                  \A k \in 1..Len(db) :
                      (\E i \in 1..Len(Result) : Result[i] = db[k])
                          <=> (/\ db[k].title.t = "str"
                               /\ Lower(last.title) \in Letters(db[k].title.s))
            /\ n <= l
            /\ n = IF last.total - (p - 1) * l < 0 THEN 0
                   ELSE IF last.total - (p - 1) * l < l
                   THEN last.total - (p - 1) * l
                   ELSE l
            /\ \A k \in 1..n : last.items[k] = Result[(p - 1) * l + k]
            /\ \A q \in Pages \ {p} :
                  Ids(OffsetLimit(Result, q, l)) \cap Ids(last.items) = {}
            /\ \A m \in 0..MaxRows, q \in Pages \ {p} :
                  LET result == [i \in 1..m |-> i]
                      items == OffsetLimit(result, p, l)
                      other == OffsetLimit(result, q, l)
                  IN  /\ Len(items) <= l
                      /\ \A k \in 1..Len(items) : items[k] = (p - 1) * l + k
                      /\ Len(items) = l \/ (p - 1) * l + Len(items) >= m
                      /\ \A j \in 1..Len(items), k \in 1..Len(other) :
                            items[j] # other[k]

\* page 2 of size 1 of a catalog of two records ordered by rating,
\* descending: the record rated 0, after the record rated 5
C22_Witness ==
    /\ Listed
    /\ last.op = "list"
    /\ last.sort_by = "rating" /\ last.order = "desc"
    /\ last.page = 2 /\ last.limit = 1
    /\ last.total = 2
    /\ Len(last.items) = 1
    /\ last.items[1].rating = 0
    /\ db[1].rating = 0 /\ db[2].rating = 5

\* delete_all_songs is the request being served
Deleting == last.op = "delete"

(***************************************************************************)
(* C23.  Delete-all is all-or-nothing: delete_all_songs either commits the *)
(* removal of every record and reports the number of records there were    *)
(* before the call, leaving an empty catalog, or on any failure rolls      *)
(* back, answers 500 and leaves the catalog as it was.                     *)
(***************************************************************************)
C23_DeleteAllOrNothing ==
    Deleting =>
        \/ /\ last.status = 200
           /\ db = <<>>
           /\ last.count = Len(prev)
           /\ last.commits = 1 /\ last.rollbacks = 0
        \/ /\ last.status = 500
           /\ db = prev
           /\ last.commits = 0 /\ last.rollbacks = 1

\* the commit failed after the bulk delete of a catalog of two records: both
\* are still there
C23_Witness ==
    /\ Deleting
    /\ last.stage = "commit"
    /\ last.status = 500
    /\ Len(prev) = 2
    /\ db = prev

\* the request being served holds the session get_db yielded to it
SessionOpen == ~Idle

(***************************************************************************)
(* C24.  The request-scoped session is always released: the session a      *)
(* request obtained from get_db is closed, once, when the request ends,    *)
(* whether the handler returned, failed validation or raised; and each     *)
(* request gets its own new session.  As steps: whatever the response, the *)
(* step after a handler is the close of its session, which changes nothing *)
(* in the catalog, and a handler starts only when no session is open.      *)
(***************************************************************************)
C24_SessionAlwaysReleased ==
    [][/\ SessionOpen => (~SessionOpen' /\ last' = NoRequest /\ db' = db)
       /\ SessionOpen' => ~SessionOpen]_vars

\* a request that raised (an uncoercible value, answered 500) holding its
\* session, which the next step closes
C24_Witness ==
    /\ SessionOpen
    /\ last.op = "upload"
    /\ last.err = "ValueError"
    /\ last.status = 500
    /\ last.adds = 1
    /\ ENABLED CloseSession

(***************************************************************************)
(* C25.  Each successful ingestion call commits exactly once, after the    *)
(* last entry of the batch has been looked up and applied: no commit is    *)
(* issued between entries, and a batch whose entries are all skipped, or   *)
(* an empty batch, still commits once.                                     *)
(***************************************************************************)
C25_CommitsOnceAfterBatch ==
    Succeeded =>
        /\ last.commits = 1
        /\ last.commit_at = <<Len(last.queries)>>
        /\ Len(last.queries) = Len(Tracks(last.data)) - SkippedCount(last.data)

\* two entries looked up and applied, then the one commit
C25_Witness ==
    /\ Succeeded
    /\ last.data = JList(<<eMin, eB>>)
    /\ last.queries = <<"a", "b">>
    /\ last.commit_at = <<2>>
    /\ last.created = 2

\* a value is defined: not null
Defined(v) == v # JNull

(***************************************************************************)
(* C26.  A record is never partially constructed: in every reachable       *)
(* catalog every record has a non-empty identifier and a defined, non-null *)
(* value for title, classLabel, rating and each of the fifteen numeric     *)
(* attributes, whatever payloads ingestion accepted, entries whose "title" *)
(* or "class" is JSON null included: the catalog as it is, and as an       *)
(* upload of such an entry leaves it.                                      *)
(***************************************************************************)
FullyConstructed(row) ==
    /\ row.id # ""
    /\ Defined(row.title)
    /\ Defined(row.song_class)
    /\ row.rating \in 0..5
    /\ \A f \in NumFields : row[f].t \in {"int", "float"}

\* payloads whose track has a null "title" and a null "class"
NullTitled == {JList(<<eNullTitle>>), eNullTitle, Wrapped(JList(<<eNullTitle>>))}

C26_NeverPartiallyConstructed ==
    /\ \A k \in 1..Len(db) : FullyConstructed(db[k])
    /\ Idle =>
          \A data \in NullTitled :
             LET r == normalize_and_insert_data(data, db)
             IN  \A k \in 1..Len(r.committed) : FullyConstructed(r.committed[k])

\* a mapping whose every top-level value is a mapping
MappingOfMappings(data) ==
    data.t = "dict" /\ \A k \in DOMAIN data.d : data.d[k].t = "dict"

(***************************************************************************)
(* C27.  Shape classification is a pure decision made once, before any     *)
(* repository call: the payload is handled as column-oriented exactly when *)
(* it is a mapping whose every top-level value is a mapping, every other   *)
(* mapping or sequence is handled as row-oriented, whatever the catalog    *)
(* holds, and one branch handles the whole call.                           *)
(***************************************************************************)
C27_ShapeClassifiedOnce ==
    /\ Called =>
          /\ last.branch = IF MappingOfMappings(last.data) THEN "column" ELSE "row"
          /\ (last.branch = "column" /\ Succeeded) =>
                last.processed = Len(ColIndices(last.data))
          /\ (last.branch = "row" /\ Succeeded) =>
                last.processed = Len(RowEntries(last.data))
    /\ Uploading /\ ~Called => last.branch = "none"

\* {"songs": {"id": "a", "title": "T"}}: every top-level value is a mapping,
\* so the column branch handles it, and misses its "id" column
C27_Witness ==
    /\ Called
    /\ last.data = Wrapped(eMin)
    /\ last.branch = "column"
    /\ last.err = "KeyError"
    /\ last.queries = <<>>

\* the positions of the non-skipped entries of a payload that name s_id
Naming(data, s_id) ==
    {i \in 1..Len(Tracks(data)) :
        ~Tracks(data)[i].skipped /\ Tracks(data)[i].id = s_id}

\* the identifiers, new to the catalog, that a payload names more than once
RepeatedNew(data, rows) ==
    {s_id \in AppliedIds(data) \ Ids(rows) : Cardinality(Naming(data, s_id)) > 1}

(***************************************************************************)
(* C28.  A batch that names the same new identifier more than once creates *)
(* at most one record for it: with added records findable only at commit,  *)
(* the second occurrence is applied as an update of the pending record,    *)
(* the created count does not exceed the number of distinct new            *)
(* identifiers, and the final commit does not fail on a duplicate          *)
(* identifier.                                                             *)
(***************************************************************************)
C28_RepeatedNewIdCreatedOnce ==
    (/\ Called
     /\ RepeatedNew(last.data, prev) # {}
     /\ last.err \in {"none", "IntegrityError"}) =>
        /\ last.err # "IntegrityError"
        /\ last.adds <= Cardinality(AppliedIds(last.data) \ Ids(prev))
        /\ Succeeded
        /\ last.created <= Cardinality(AppliedIds(last.data) \ Ids(prev))
        /\ RepeatedNew(last.data, prev) \subseteq Ids(db)

\* the application has just (re)started and has served no request since
Started == last.op = "lifespan"

(***************************************************************************)
(* C30.  Application startup always yields an empty catalog: immediately   *)
(* after any (re)start no record from before the start exists, whatever    *)
(* uploads and ratings preceded it.                                        *)
(***************************************************************************)
C30_StartupYieldsEmptyCatalog ==
    Started => (db = <<>> /\ Ids(db) \cap Ids(prev) = {})

\* a catalog holding a rated song was restarted
C30_Witness ==
    /\ Started
    /\ \E k \in 1..Len(prev) : prev[k].rating > 0
    /\ db = <<>>

\* worker w's upload has been answered with that status
Answered(w, status) == uploads[w].pc = "done" /\ uploads[w].status = status

\* worker w's upload is answered in this step
Answers(w) == uploads[w].pc = "loop" /\ uploads'[w].pc = "done"

(***************************************************************************)
(* C29.  Under any interleaving of two concurrent uploads that carry the   *)
(* same previously unknown identifier, the catalog never holds two records *)
(* with that identifier: at most one request's commit creates it, and a    *)
(* request whose commit hits the unique constraint fails as a whole (500)  *)
(* and persists none of its entries.                                       *)
(***************************************************************************)
C29_RaceCreatesOnce ==
    /\ [](\A i, j \in 1..Len(db) : db[i].id = db[j].id => i = j)
    /\ [](\A v, w \in Workers :
            (v # w /\ Answered(v, 200) /\ Answered(w, 200)) =>
                uploads[v].created \cap uploads[w].created = {})
    /\ [][\A w \in Workers :
            Answers(w) =>
                /\ uploads'[w].st.err = "IntegrityError" =>
                      (uploads'[w].status = 500 /\ db' = db)
                /\ uploads'[w].status = 200 =>
                      uploads'[w].created \cap Ids(db) = {}]_vars

\* both uploads looked "a" up before either committed; the first created
\* it, the second failed at its commit and its "b" is not in the catalog
C29_Witness ==
    /\ Answered(1, 200) /\ uploads[1].created = {"a"}
    /\ Answered(2, 500) /\ uploads[2].st.err = "IntegrityError"
    /\ Ids(uploads[2].st.pending) = {"a", "b"}
    /\ Ids(db) = {"a"}

====
